---- MODULE Spec2Model ----
(***************************************************************************)
(* WegeRadar: model of src/algorithm.py.                                   *)
(*                                                                         *)
(* Units.  Latitude and longitude are integers in units of 1e-7 degree,    *)
(* instants are integer seconds (UTC; astimezone() keeps the instant, so   *)
(* start_dt/end_dt are modelled by the instant they denote), distances     *)
(* returned by haversine are integer millimetres, dist_km and speed_kmh    *)
(* are integers in units of 0.01 (they are round(x, 2) in the source).     *)
(* Mode names are written in ASCII ("Zu Fuss", "Strassenbahn").            *)
(***************************************************************************)
EXTENDS Integers, Sequences, FiniteSets, TLC

VARIABLES
    pc,        \* position inside analyze_gpx / the standalone calls
    pts,       \* analyze_gpx: the sorted list of timed points
    coords,    \* analyze_gpx: first point, clusters, last point
    merged,    \* analyze_gpx: list after the minute pass
    enriched,  \* analyze_gpx: list of dict objects (heap ids)
    final,     \* analyze_gpx: list of dict objects (heap ids)
    idx,       \* analyze_gpx: loop index of the segment loop
    heap,      \* the dict objects created by reverse_geocode, by id
    GEOCACHE,  \* _GEOCACHE: rounded key -> id of the cached dict object
    result,    \* value returned by the last finished call
    rg,        \* the last reverse_geocode call: outcome and returned id
    requests,  \* number of outbound Nominatim requests so far
    netcalls,  \* number of network-data lookups (_load_osm_cached) so far
    runs,      \* number of analyze_gpx runs started
    firstResult, \* value returned by the first analyze_gpx run
    ct,        \* the last classify_transport call: its inputs and result
    seg,       \* the last segment measured by analyze_gpx (lines 515-537)
    outbound,  \* keys of the requests sent to Nominatim since the module load
    scan,      \* the detection loop run step by step: i, j, clusters
    segcall,   \* the last classify_segment call (src/transport_mode.py)
    answers,   \* the geocoding service: coordinates asked so far -> answer
    net        \* the network-data collaborator: <<>> until first used

vars == <<pc, pts, coords, merged, enriched, final, idx, heap, GEOCACHE,
          result, rg, requests, netcalls, runs, firstResult, ct, seg,
          outbound, scan, segcall, answers, net>>

----------------------------------------------------------------------------
(* Bounds of the model *)

MaxPts == 4          \* longest trace file (number of <trkpt> elements)

MaxStays == 3        \* longest stay-point list given to the minute pass alone

(* Program constants, src/algorithm.py:66-73 *)
DIST_THRESHOLD_M == 50
MIN_STOP_DURATION_SEC == 180
MAX_GAP_SEC_SAME_ADDR == 600
MERGE_DIST_M == 150
SNAP_RADIUS_M == 10
FOOT_MAX_KM == 4

----------------------------------------------------------------------------
(* Inputs: the trace files *)

NoTime == -1   \* a <trkpt> without <time>: pt.time is None

\* positions (lat, lon): A and B are 1.3 m apart, C is 200 m away
PosSet == { <<60, 0>>, <<180, 0>>, <<18000, 120>> }

\* seconds between one point and the next one of the file
GapSet == { 40, 700 }

RECURSIVE FilesOfLen(_, _)
\* the chronological files with n points whose timed points end at time t
FilesOfLen(n, t) ==
    IF n = 0 THEN { <<>> }
    ELSE UNION { { <<[t |-> t, lat |-> p[1], lon |-> p[2]]>> \o f
                     : f \in UNION { FilesOfLen(n - 1, t + g) : g \in GapSet } }
                 : p \in PosSet }
         \cup { <<[t |-> NoTime, lat |-> 60, lon |-> 0]>> \o f
                     : f \in FilesOfLen(n - 1, t) }

Reverse(s) == [i \in 1..Len(s) |-> s[Len(s) + 1 - i]]

\* a file lists its points in chronological or in reverse order
Files(maxLen) ==
    LET chrono == UNION { FilesOfLen(n, 0) : n \in 0..maxLen }
    IN  chrono \cup { Reverse(f) : f \in chrono }

----------------------------------------------------------------------------
(* Arithmetic helpers *)

Min(a, b) == IF a <= b THEN a ELSE b

Max(a, b) == IF a >= b THEN a ELSE b

RECURSIVE SqrtSearch(_, _, _)
SqrtSearch(n, lo, hi) ==
    IF lo >= hi THEN lo
    ELSE LET mid == (lo + hi + 1) \div 2
         IN  IF mid * mid <= n THEN SqrtSearch(n, mid, hi)
             ELSE SqrtSearch(n, lo, mid - 1)

\* floor of the square root
ISqrt(n) == SqrtSearch(n, 0, Min(n, 46340))

\* Python round(): x / d rounded to the nearest integer, ties to even
RoundDiv(x, d) ==
    LET q == x \div d
        r == x % d
    IN  IF 2 * r < d THEN q
        ELSE IF 2 * r > d THEN q + 1
        ELSE IF q % 2 = 0 THEN q ELSE q + 1

RECURSIVE SeqSum(_)
SeqSum(s) == IF s = <<>> THEN 0 ELSE Head(s) + SeqSum(Tail(s))

----------------------------------------------------------------------------
(* haversine, src/algorithm.py:304-308.  For the distances of a trace      *)
(* (below 1 km) the great circle is the plane: the result is the length    *)
(* of (dlat, dlon), 1e-7 degree being 11.1195 mm on the sphere of radius   *)
(* 6 371 000 m.  The result is in millimetres.                             *)

haversine(lat1, lon1, lat2, lon2) ==
    LET dlat == lat2 - lat1
        dlon == lon2 - lon1
        d == ISqrt(dlat * dlat + dlon * dlon)
    IN  d * 11 + (d * 1195) \div 10000

----------------------------------------------------------------------------
(* analyze_gpx, steps 0-2 *)

\* the comprehension of lines 442-448: the points that have a time
RECURSIVE Timed(_)
Timed(f) ==
    IF f = <<>> THEN <<>>
    ELSE IF Head(f).t = NoTime THEN Timed(Tail(f))
         ELSE <<Head(f)>> \o Timed(Tail(f))

\* list.sort(key = time) is stable: insert after the last element <= x
RECURSIVE InsertByTime(_, _)
InsertByTime(s, x) ==
    IF s = <<>> THEN <<x>>
    ELSE IF Head(s).t <= x.t THEN <<Head(s)>> \o InsertByTime(Tail(s), x)
         ELSE <<x>> \o s

RECURSIVE SortByTime(_)
SortByTime(s) ==
    IF s = <<>> THEN <<>>
    ELSE InsertByTime(SortByTime(SubSeq(s, 1, Len(s) - 1)), s[Len(s)])

\* inner while loop, lines 458-460: first j > i that leaves the radius of
\* the anchor point i, or n + 1 (indices are 1-based here)
RECURSIVE WindowEnd(_, _, _, _)
WindowEnd(p, i, j, dist_m) ==
    IF j <= Len(p)
       /\ haversine(p[i].lat, p[i].lon, p[j].lat, p[j].lon) <= dist_m * 1000
    THEN WindowEnd(p, i, j + 1, dist_m)
    ELSE j

\* mutant of Cluster: the cluster ends at the point that closed the window
Cluster_EndAtJ(p, i, j) ==
    [lat |-> SeqSum([k \in 1..(j - i) |-> p[i + k - 1].lat]) \div (j - i),
     lon |-> SeqSum([k \in 1..(j - i) |-> p[i + k - 1].lon]) \div (j - i),
     s |-> p[i].t,
     e |-> p[Min(j, Len(p))].t]

\* lines 463-465: the cluster of the window p[i .. j-1]
Cluster(p, i, j) ==
    [lat |-> SeqSum([k \in 1..(j - i) |-> p[i + k - 1].lat]) \div (j - i),
     lon |-> SeqSum([k \in 1..(j - i) |-> p[i + k - 1].lon]) \div (j - i),
     s |-> p[i].t,
     e |-> p[j - 1].t]

\* mutant of Clusters: after a cluster the scan goes on at i + 1, not at j
RECURSIVE Clusters_StepOne(_, _, _, _)
Clusters_StepOne(p, i, dist_m, min_stop_sec) ==
    IF i > Len(p) THEN <<>>
    ELSE LET j == WindowEnd(p, i, i + 1, dist_m)
             duration == p[j - 1].t - p[i].t
         IN  IF duration >= min_stop_sec
             THEN <<Cluster(p, i, j)>>
                  \o Clusters_StepOne(p, i + 1, dist_m, min_stop_sec)
             ELSE Clusters_StepOne(p, i + 1, dist_m, min_stop_sec)

\* outer while loop, lines 456-468
RECURSIVE Clusters(_, _, _, _)
Clusters(p, i, dist_m, min_stop_sec) ==
    IF i > Len(p) THEN <<>>
    ELSE LET j == WindowEnd(p, i, i + 1, dist_m)
             duration == p[j - 1].t - p[i].t
         IN  IF duration >= min_stop_sec
             THEN <<Cluster(p, i, j)>> \o Clusters(p, j, dist_m, min_stop_sec)
             ELSE Clusters(p, i + 1, dist_m, min_stop_sec)

\* mutant of Coords: a window of any duration is kept as a cluster
Coords_AnyDuration(p) ==
    <<[lat |-> p[1].lat, lon |-> p[1].lon, s |-> p[1].t, e |-> p[1].t]>>
    \o Clusters(p, 1, DIST_THRESHOLD_M, 0)
    \o <<[lat |-> p[Len(p)].lat, lon |-> p[Len(p)].lon,
          s |-> p[Len(p)].t, e |-> p[Len(p)].t]>>

\* lines 470-474
Coords(p) ==
    <<[lat |-> p[1].lat, lon |-> p[1].lon, s |-> p[1].t, e |-> p[1].t]>>
    \o Clusters(p, 1, DIST_THRESHOLD_M, MIN_STOP_DURATION_SEC)
    \o <<[lat |-> p[Len(p)].lat, lon |-> p[Len(p)].lon,
          s |-> p[Len(p)].t, e |-> p[Len(p)].t]>>

\* strftime("%Y-%m-%d %H:%M"): the instant truncated to its minute
Minute(t) == t \div 60

\* mutant of MinuteStep: the minute of the last entry's start is compared
MinuteStep_PrevStart(m, c) ==
    IF m # <<>> /\ Minute(m[Len(m)].s) = Minute(c.s)
    THEN [m EXCEPT ![Len(m)].e = c.e]
    ELSE Append(m, c)

\* lines 477-482, one iteration: fold c into the last entry or append it
MinuteStep(m, c) ==
    IF m # <<>> /\ Minute(m[Len(m)].e) = Minute(c.s)
    THEN [m EXCEPT ![Len(m)].e = c.e]
    ELSE Append(m, c)

RECURSIVE MinutePass(_, _)
MinutePass(m, cs) ==
    IF cs = <<>> THEN m ELSE MinutePass(MinuteStep(m, Head(cs)), Tail(cs))

----------------------------------------------------------------------------
(* Transport modes, src/algorithm.py:78-116 *)

\* the keys of _TAG_FILTERS in insertion order
Modes == <<"Zu Fuss", "Fahrrad", "Auto", "Bus", "Strassenbahn", "Zug">>

ModeSet == { Modes[i] : i \in 1..Len(Modes) }

\* _SPEED_BANDS, km/h
SPEED_BANDS ==
    [m \in ModeSet |->
        CASE m = "Zu Fuss"      -> <<0, 7>>
          [] m = "Fahrrad"      -> <<7, 30>>
          [] m = "Auto"         -> <<24, 300>>
          [] m = "Bus"          -> <<15, 90>>
          [] m = "Strassenbahn" -> <<15, 90>>
          [] m = "Zug"          -> <<40, 250>>]

\* Scores are rationals.  A speed score is a numerator over SpeedDen, the
\* least common multiple of 100 * (hi - lo) over the six bands.
BandLcm == 48300

SpeedDen == 100 * BandLcm

\* _speed_score, lines 128-134; v_kmh in 0.01 km/h, result over SpeedDen
speed_score(v_kmh, mode) ==
    LET lo == SPEED_BANDS[mode][1]
        hi == SPEED_BANDS[mode][2]
    IN  IF v_kmh <= 100 * lo THEN 0
        ELSE IF v_kmh >= 100 * hi THEN SpeedDen
        ELSE (v_kmh - 100 * lo) * (BandLcm \div (hi - lo))

\* A GeoDataFrame returned by _load_osm_cached is modelled by what the
\* scores read from it: whether it is empty, which segment points have a
\* geometry within SNAP_RADIUS_M (near: all of them, none, or those with an
\* odd index), and the average of the maxspeed values found near the
\* segment points (0: none found).
\* _limit_score, lines 152-179; result in halves (2 = 1.0, 1 = 0.5, 0 = 0.0)
limit_score(mode, speed_kmh, gdf) ==
    IF mode \notin {"Auto", "Bus"} \/ speed_kmh = 0 \/ gdf.empty THEN 2
    ELSE IF gdf.limit = 0 THEN 2
    ELSE IF speed_kmh <= 100 * gdf.limit THEN 2
    ELSE IF 2 * speed_kmh <= 300 * gdf.limit THEN 1
    ELSE 0

\* lines 266-270: the segment point of index k (from 0) has a geometry of
\* gdf within SNAP_RADIUS_M
InRange(gdf, k) ==
    CASE gdf.near = "all" -> TRUE
      [] gdf.near = "odd" -> k % 2 = 1
      [] OTHER -> FALSE

\* the indices of seg_pts[:: max(1, len // 100)], line 265
Sampled(n) == { k \in 0..(n - 1) : k % Max(1, n \div 100) = 0 }

\* lines 256-274: the coverage as a count (match) over len(seg_pts); lk is
\* the outcome of this mode's lookup
Coverage(lk, n) ==
    IF ~lk.ok THEN 0
    ELSE IF lk.gdf.empty THEN 0
    ELSE Cardinality({ k \in Sampled(n) : InRange(lk.gdf, k) })

RECURSIVE Gcd(_, _)
Gcd(a, b) == IF b = 0 THEN a ELSE Gcd(b, a % b)

RECURSIVE CovGcd(_, _, _)
\* the six coverages match / n are written over the denominator n / g, g
\* the greatest common divisor of n and the six match counts
CovGcd(i, lookups, n) ==
    IF i > Len(Modes) THEN n
    ELSE Gcd(CovGcd(i + 1, lookups, n), Coverage(lookups[Modes[i]], n))

\* mutant of Total: step 5, the cut of "Zu Fuss" beyond FOOT_MAX_KM, is
\* missing
Total_NoFootCut(mode, s_speed, match, s_lim, n, dist_km) ==
    IF mode \in {"Auto", "Bus"}
    THEN 4 * s_speed * n + 4 * match * SpeedDen + s_lim * SpeedDen * n
    ELSE 4 * s_speed * n + 6 * match * SpeedDen

\* lines 281-289: the raw total of one mode as a numerator over
\* 10 * SpeedDen * n, the coverage being match / n
Total(mode, s_speed, match, s_lim, n, dist_km) ==
    IF mode = "Zu Fuss" /\ dist_km > 100 * FOOT_MAX_KM THEN 0
    ELSE IF mode \in {"Auto", "Bus"}
         THEN 4 * s_speed * n + 4 * match * SpeedDen + s_lim * SpeedDen * n
         ELSE 4 * s_speed * n + 6 * match * SpeedDen

\* one iteration of the loop of lines 252-291.  st.gdf is the local
\* variable gdf: <<>> while unbound, <<g>> once a lookup has returned.
\* st.spd collects s_speed (over SpeedDen) and st.cov collects s_cov as the
\* count match over n; in the total the fraction match / n is written in
\* the lower terms (match / g) / (n / g).
ModeStep(st, mode, lk, n, g, speed_kmh, dist_km) ==
    IF st.exc # "" THEN st
    ELSE LET gdf == IF lk.ok THEN <<lk.gdf>> ELSE st.gdf
             s_cov == Coverage(lk, n)
             calls == st.calls + 1
         IN  IF mode \in {"Auto", "Bus"} /\ gdf = <<>>
             THEN [st EXCEPT !.exc = "UnboundLocalError", !.calls = calls,
                             !.gdf = gdf]
             ELSE [st EXCEPT
                     !.gdf = gdf,
                     !.calls = calls,
                     !.spd = Append(@, speed_score(speed_kmh, mode)),
                     !.cov = Append(@, s_cov),
                     !.raw = Append(@,
                        Total(mode, speed_score(speed_kmh, mode),
                              s_cov \div g,
                              IF mode \in {"Auto", "Bus"}
                              THEN limit_score(mode, speed_kmh, gdf[1])
                              ELSE 2,
                              n \div g, dist_km))]

RECURSIVE ModeLoop(_, _, _, _, _, _, _)
ModeLoop(st, i, lookups, n, g, speed_kmh, dist_km) ==
    IF i > Len(Modes) THEN st
    ELSE ModeLoop(ModeStep(st, Modes[i], lookups[Modes[i]], n, g, speed_kmh,
                           dist_km),
                  i + 1, lookups, n, g, speed_kmh, dist_km)

\* mutant of NormTot: the `or 1` is missing
NormTot_NoGuard(raw, den) == SeqSum(raw)

\* line 294: tot = sum(scores.values()) or 1, as numerator over the
\* common denominator den
NormTot(raw, den) == IF SeqSum(raw) = 0 THEN den ELSE SeqSum(raw)

\* mutant of FirstMax: a later key with an equal value replaces the pick
RECURSIVE FirstMax_LastWins(_, _, _)
FirstMax_LastWins(raw, i, b) ==
    IF i > Len(raw) THEN b
    ELSE FirstMax_LastWins(raw, i + 1, IF raw[i] >= raw[b] THEN i ELSE b)

\* line 297: max(scores, key = scores.get) returns the first key, in
\* insertion order, that has the greatest value
RECURSIVE FirstMax(_, _, _)
FirstMax(raw, i, b) ==
    IF i > Len(raw) THEN b
    ELSE FirstMax(raw, i + 1, IF raw[i] > raw[b] THEN i ELSE b)

\* mutant of ScoreMap: the key "best" is not set
ScoreMap_NoBest(raw, tot) ==
    [k \in ModeSet |->
        LET i == CHOOSE j \in 1..Len(Modes) : Modes[j] = k
        IN  [num |-> raw[i], den |-> tot]]

\* lines 293-298: the returned dict, a function on its keys; raw are the
\* six totals and tot the divisor, all over the same denominator
ScoreMap(raw, tot) ==
    [k \in ModeSet \cup {"best"} |->
        IF k = "best" THEN Modes[FirstMax(raw, 1, 1)]
        ELSE LET i == CHOOSE j \in 1..Len(Modes) : Modes[j] = k
             IN  [num |-> raw[i], den |-> tot]]

\* classify_transport, lines 237-298.  n = len(seg_pts); lookups gives, for
\* every mode, the outcome of _load_osm_cached.  The result is the returned
\* dict (ret, a function on its keys), or exc names the exception raised;
\* spd and cov list the six values of s_speed (over SpeedDen) and of s_cov
\* (as counts over n).
classify_transport(n, speed_kmh, dist_km, lookups) ==
    IF n = 0
    THEN [exc |-> "", calls |-> 0, spd |-> <<>>, cov |-> <<>>,
          ret |-> [k \in {"best"} |-> "None"]]
    ELSE LET g == CovGcd(1, lookups, n)
             st == ModeLoop([exc |-> "", calls |-> 0, gdf |-> <<>>,
                             spd |-> <<>>, cov |-> <<>>, raw |-> <<>>],
                            1, lookups, n, g, speed_kmh, dist_km)
             den == 10 * SpeedDen * (n \div g)
             tot == NormTot(st.raw, den)
         IN  IF st.exc # ""
             THEN [exc |-> st.exc, calls |-> st.calls, spd |-> st.spd,
                   cov |-> st.cov, ret |-> <<>>]
             ELSE [exc |-> "", calls |-> st.calls, spd |-> st.spd,
                   cov |-> st.cov, ret |-> ScoreMap(st.raw, tot)]

----------------------------------------------------------------------------
(* Reverse geocoding, src/algorithm.py:316-376 *)

Absent == -1   \* a key the dict does not have yet

AddrFields == {"name", "road", "house_number", "postcode", "city"}

\* line 334: the all-empty address
EmptyAddr ==
    [name |-> "", road |-> "", house_number |-> "", postcode |-> "",
     city |-> ""]

\* lines 348-366: the address extracted from the answer of the service for
\* (lat, lon); the service knows two buildings
Nominatim(lat, lon) ==
    IF lat < 9000
    THEN [name |-> "", road |-> "Kaiserstr", house_number |-> "12",
          postcode |-> "76131", city |-> "Karlsruhe"]
    ELSE [name |-> "KIT", road |-> "Kaiserstr", house_number |-> "89",
          postcode |-> "76133", city |-> "Karlsruhe"]

\* outcomes of requests.get: an answer with status 200, an answer with
\* another status, an exception (timeout, no connection, bad JSON)
GeoOutcomes == {"ok", "status", "exception"}

\* a new dict as line 334 creates it, with the keys analyze_gpx adds later
NewDict(addr) ==
    [name |-> addr.name, road |-> addr.road,
     house_number |-> addr.house_number, postcode |-> addr.postcode,
     city |-> addr.city,
     lat |-> Absent, lon |-> Absent, start_dt |-> Absent, end_dt |-> Absent,
     next_dist_km_real |-> <<>>, next_speed_kmh_real |-> <<>>,
     next_mode_rank |-> <<>>]

\* line 330: (round(lat, 5), round(lon, 5)), in units of 1e-5 degree
Key(lat, lon) == <<RoundDiv(lat, 100), RoundDiv(lon, 100)>>

\* mutant of reverse_geocode: an all-empty result of a failed request is
\* not stored in the cache
reverse_geocode_NoStoreOnFailure(lat, lon, outcome, cache, hp) ==
    LET key == Key(lat, lon)
    IN  IF key \in DOMAIN cache
        THEN [ret |-> cache[key], cache |-> cache, heap |-> hp,
              outcome |-> "hit", sent |-> 0, slept |-> 0]
        ELSE LET res == IF outcome = "ok" THEN Nominatim(lat, lon)
                        ELSE EmptyAddr
                 id == Len(hp) + 1
             IN  [ret |-> id,
                  cache |-> IF outcome = "ok"
                            THEN [k \in DOMAIN cache \cup {key} |->
                                    IF k = key THEN id ELSE cache[k]]
                            ELSE cache,
                  heap |-> Append(hp, NewDict(res)),
                  outcome |-> outcome, sent |-> 1, slept |-> 1]

\* mutant of reverse_geocode: the status code of the answer is not checked
reverse_geocode_AnyStatus(lat, lon, outcome, cache, hp) ==
    LET key == Key(lat, lon)
    IN  IF key \in DOMAIN cache
        THEN [ret |-> cache[key], cache |-> cache, heap |-> hp,
              outcome |-> "hit", sent |-> 0, slept |-> 0]
        ELSE LET res == IF outcome \in {"ok", "status"}
                        THEN Nominatim(lat, lon)
                        ELSE EmptyAddr
                 id == Len(hp) + 1
             IN  [ret |-> id,
                  cache |-> [k \in DOMAIN cache \cup {key} |->
                               IF k = key THEN id ELSE cache[k]],
                  heap |-> Append(hp, NewDict(res)),
                  outcome |-> outcome, sent |-> 1, slept |-> 1]

\* reverse_geocode, lines 329-372.  cache and hp are _GEOCACHE and the dict
\* objects before the call, outcome is what the request does if one is
\* sent.  Returns the id of the returned dict and the state after the call;
\* sent and slept count the requests.get and time.sleep calls made.
reverse_geocode(lat, lon, outcome, cache, hp) ==
    LET key == Key(lat, lon)
    IN  IF key \in DOMAIN cache
        THEN [ret |-> cache[key], cache |-> cache, heap |-> hp,
              outcome |-> "hit", sent |-> 0, slept |-> 0]
        ELSE LET res == IF outcome = "ok" THEN Nominatim(lat, lon)
                        ELSE EmptyAddr
                 id == Len(hp) + 1
             IN  [ret |-> id,
                  cache |-> [k \in DOMAIN cache \cup {key} |->
                               IF k = key THEN id ELSE cache[k]],
                  heap |-> Append(hp, NewDict(res)),
                  outcome |-> outcome, sent |-> 1, slept |-> 1]

\* mutant of same_address: the name, the house number and the postcode are
\* not compared
same_address_RoadCity(a, b) ==
    /\ a.road = b.road
    /\ a.city = b.city

\* _same_address, lines 375-376
same_address(a, b) ==
    /\ a.name = b.name
    /\ a.road = b.road
    /\ a.house_number = b.house_number
    /\ a.postcode = b.postcode
    /\ a.city = b.city

----------------------------------------------------------------------------
(* analyze_gpx, steps 3-5 *)

\* lines 487-496: the body of the geocoding loop for the merged entry m
Enrich(m, outcome, cache, hp) ==
    LET r == reverse_geocode(m.lat, m.lon, outcome, cache, hp)
    IN  [r EXCEPT !.heap[r.ret].lat = m.lat,
                  !.heap[r.ret].lon = m.lon,
                  !.heap[r.ret].start_dt = m.s,
                  !.heap[r.ret].end_dt = m.e]

\* mutant of AddressStep: the fold extends the first stop of the list
\* (final[0]) instead of the stop it compared with (final[-1])
AddressStep_ExtendFirst(st, item) ==
    IF st.final = <<>> THEN [st EXCEPT !.final = <<item>>]
    ELSE LET prev == st.final[Len(st.final)]
             hp == st.heap
             gap_sec == hp[item].start_dt - hp[prev].end_dt
             same_addr == same_address(hp[prev], hp[item])
             close == haversine(hp[prev].lat, hp[prev].lon,
                                hp[item].lat, hp[item].lon)
                        <= MERGE_DIST_M * 1000
         IN  IF gap_sec <= MAX_GAP_SEC_SAME_ADDR /\ (same_addr \/ close)
             THEN [st EXCEPT !.heap[st.final[1]].end_dt = hp[item].end_dt]
             ELSE [st EXCEPT !.final = Append(@, item)]

\* lines 500-511, one iteration: st = [final, heap], item is a dict id
AddressStep(st, item) ==
    IF st.final = <<>> THEN [st EXCEPT !.final = <<item>>]
    ELSE LET prev == st.final[Len(st.final)]
             hp == st.heap
             gap_sec == hp[item].start_dt - hp[prev].end_dt
             same_addr == same_address(hp[prev], hp[item])
             close == haversine(hp[prev].lat, hp[prev].lon,
                                hp[item].lat, hp[item].lon)
                        <= MERGE_DIST_M * 1000
         IN  IF gap_sec <= MAX_GAP_SEC_SAME_ADDR /\ (same_addr \/ close)
             THEN [st EXCEPT !.heap[prev].end_dt = hp[item].end_dt]
             ELSE [st EXCEPT !.final = Append(@, item)]

RECURSIVE AddressPass(_, _)
AddressPass(st, items) ==
    IF items = <<>> THEN st
    ELSE AddressPass(AddressStep(st, Head(items)), Tail(items))

\* mutant of SegDist: the flag `started` is not looked at, every pair that
\* is not skipped is added
RECURSIVE SegDist_NoStarted(_, _, _, _, _, _)
SegDist_NoStarted(p, i, started, acc, end_prev, start_next) ==
    IF i > Len(p) - 1 THEN acc
    ELSE LET t1 == p[i + 1].t
         IN  IF t1 < end_prev
             THEN SegDist_NoStarted(p, i + 1, started, acc, end_prev,
                                    start_next)
             ELSE LET d == acc + haversine(p[i].lat, p[i].lon,
                                           p[i + 1].lat, p[i + 1].lon)
                  IN  IF t1 >= start_next THEN d
                      ELSE SegDist_NoStarted(p, i + 1, TRUE, d, end_prev,
                                             start_next)

\* lines 518-530: the distance loop from index i on (1-based), in mm
RECURSIVE SegDist(_, _, _, _, _, _)
SegDist(p, i, started, acc, end_prev, start_next) ==
    IF i > Len(p) - 1 THEN acc
    ELSE LET t0 == p[i].t
             t1 == p[i + 1].t
         IN  IF t1 < end_prev
             THEN SegDist(p, i + 1, started, acc, end_prev, start_next)
             ELSE LET st == started \/ t0 >= end_prev
                      d == IF st
                           THEN acc + haversine(p[i].lat, p[i].lon,
                                                p[i + 1].lat, p[i + 1].lon)
                           ELSE acc
                  IN  IF st /\ t1 >= start_next THEN d
                      ELSE SegDist(p, i + 1, st, d, end_prev, start_next)

\* line 532: round(dist_m_real / 1000.0, 2), in 0.01 km
DistKm(dist_mm) == RoundDiv(dist_mm, 10000)

\* lines 533-534, in 0.01 km/h; secs = start_next - end_prev
SpeedKmh(dist_km, secs) ==
    IF secs > 0 THEN RoundDiv(dist_km * 3600, secs) ELSE 0

\* line 539: len(seg_pts)
SegLen(p, end_prev, start_next) ==
    Cardinality({ i \in 1..Len(p) : end_prev <= p[i].t /\ p[i].t <= start_next })

\* what the caller of analyze_gpx sees of the returned list
Snapshot(fin, hp) == [i \in 1..Len(fin) |-> hp[fin[i]]]

----------------------------------------------------------------------------
(* The network-data collaborator *)

EmptyGdf == [empty |-> TRUE, near |-> "none", limit |-> 0]

\* a GeoDataFrame whose ways run along every segment point; limit in km/h
FullGdf(limit) == [empty |-> FALSE, near |-> "all", limit |-> limit]

Raises == [ok |-> FALSE, gdf |-> EmptyGdf]

Returns(g) == [ok |-> TRUE, gdf |-> g]

\* what _load_osm_cached does for the six modes during one call of
\* classify_transport inside analyze_gpx: nothing mapped in the area, the
\* download fails for every mode, or a road with maxspeed 30 under the track
NetProfiles ==
    { [m \in ModeSet |-> Returns(EmptyGdf)],
      [m \in ModeSet |-> Raises],
      [m \in ModeSet |-> IF m \in {"Auto", "Bus"} THEN Returns(FullGdf(30))
                         ELSE Returns(EmptyGdf)] }

----------------------------------------------------------------------------
(* State machine *)

\* the answers of the geocoding service are fixed: a coordinate that was
\* asked before gets the answer it got then ("fail": some failure)
ServiceOutcomes(ans, m) ==
    IF <<m.lat, m.lon>> \in DOMAIN ans
    THEN IF ans[<<m.lat, m.lon>>] = "ok" THEN {"ok"}
         ELSE {"status", "exception"}
    ELSE GeoOutcomes

Asked(ans, m, outcome) ==
    [c \in DOMAIN ans \cup {<<m.lat, m.lon>>} |->
        IF c = <<m.lat, m.lon>>
        THEN IF outcome = "ok" THEN "ok" ELSE "fail"
        ELSE ans[c]]

NoCall ==
    [outcome |-> "none", ret |-> 0, sent |-> 0, slept |-> 0,
     value |-> EmptyAddr]

NoClassify == [n |-> -1, speed_kmh |-> 0, dist_km |-> 0, lookups |-> <<>>,
               exc |-> "", spd |-> <<>>, cov |-> <<>>, ret |-> <<>>]

\* no segment measured yet; speed is the value stored under the key
\* next_speed_kmh_real: <<v>>, or <<>> when the key is left absent
NoSegment ==
    [idx |-> 0, end_prev |-> 0, start_next |-> 0, secs |-> 0, dist_mm |-> 0,
     dist_km |-> 0, speed |-> <<>>]

\* classify_segment has not been called
NoSegmentCall ==
    [n |-> -1, speed_kmh |-> 0, mm |-> <<>>, wt |-> <<>>, bs |-> <<>>,
     label |-> "", exc |-> "", calls |-> 0]

\* the detection loop is not being stepped through
NoScan == [at |-> "none", i |-> 0, j |-> 0, clusters |-> <<>>]

Init ==
    /\ pc = "idle"
    /\ pts = <<>>
    /\ coords = <<>>
    /\ merged = <<>>
    /\ enriched = <<>>
    /\ final = <<>>
    /\ idx = 0
    /\ heap = <<>>
    /\ GEOCACHE = <<>>
    /\ result = <<>>
    /\ rg = NoCall
    /\ requests = 0
    /\ netcalls = 0
    /\ runs = 0
    /\ firstResult = <<>>
    /\ ct = NoClassify
    /\ seg = NoSegment
    /\ outbound = <<>>
    /\ scan = NoScan
    /\ segcall = NoSegmentCall
    /\ answers = <<>>
    /\ net = <<>>

\* `return []` / `return final`: the caller receives the list
Return(fin, hp) ==
    /\ pc' = "returned"
    /\ result' = Snapshot(fin, hp)
    /\ firstResult' = IF runs <= 1 THEN Snapshot(fin, hp) ELSE firstResult

\* lines 435-437: the file does not exist
analyze_gpx_missing ==
    /\ pc = "idle"
    /\ runs = 0
    /\ runs' = 1
    /\ Return(<<>>, heap)
    /\ UNCHANGED <<pts, coords, merged, enriched, final, idx, heap, GEOCACHE,
                   rg, requests, netcalls, ct, seg, outbound, scan,
                   answers, net,
                   segcall>>

\* mutant of Start: `if not pts: return []` is missing
Start_NoEmptyCheck(p) ==
    /\ pts' = p
    /\ coords' = <<>>
    /\ merged' = <<>>
    /\ enriched' = <<>>
    /\ idx' = 0
    /\ pc' = "detect"
    /\ UNCHANGED <<result, firstResult, segcall>>

\* lines 449-450, 455 and 477, 485: the locals of a run that starts on the
\* points p (the list `final` is created at line 499)
Start(p) ==
    /\ pts' = p
    /\ coords' = <<>>
    /\ merged' = <<>>
    /\ enriched' = <<>>
    /\ idx' = 0
    /\ IF p = <<>>
       THEN Return(<<>>, heap)
       ELSE /\ pc' = "detect"
            /\ UNCHANGED <<result, firstResult, segcall>>

\* lines 439-452: parse the file, keep the timed points, sort them
analyze_gpx_parse ==
    /\ pc = "idle"
    /\ runs = 0
    /\ runs' = 1
    /\ \E f \in Files(MaxPts) : Start(SortByTime(Timed(f)))
    /\ UNCHANGED <<final, heap, GEOCACHE, rg, requests, netcalls, ct, seg,
                   outbound, scan,
                   answers, net, segcall>>

\* lines 455-474
analyze_gpx_detect ==
    /\ pc = "detect"
    /\ coords' = Coords(pts)
    /\ pc' = "minute"
    /\ UNCHANGED <<pts, merged, enriched, final, idx, heap, GEOCACHE, result,
                   rg, requests, netcalls, runs, firstResult, ct, seg,
                   outbound, scan, answers,
                   net, segcall>>

\* lines 476-482
analyze_gpx_minute ==
    /\ pc = "minute"
    /\ merged' = MinutePass(<<>>, coords)
    /\ pc' = "geocode"
    /\ UNCHANGED <<pts, coords, enriched, final, idx, heap, GEOCACHE, result,
                   rg, requests, netcalls, runs, firstResult, ct, seg,
                   outbound, scan, answers,
                   net, segcall>>

\* lines 484-496, one iteration of the loop
analyze_gpx_geocode ==
    /\ pc = "geocode"
    /\ Len(enriched) < Len(merged)
    /\ \E outcome \in ServiceOutcomes(answers, merged[Len(enriched) + 1]) :
         LET r == Enrich(merged[Len(enriched) + 1], outcome, GEOCACHE, heap)
         IN  /\ heap' = r.heap
             /\ answers' = IF r.sent = 1
                           THEN Asked(answers, merged[Len(enriched) + 1],
                                      outcome)
                           ELSE answers
             /\ GEOCACHE' = r.cache
             /\ enriched' = Append(enriched, r.ret)
             /\ requests' = requests + r.sent
             /\ outbound' = IF r.sent = 1
                            THEN Append(outbound,
                                        Key(merged[Len(enriched) + 1].lat,
                                            merged[Len(enriched) + 1].lon))
                            ELSE outbound
             /\ rg' = [outcome |-> r.outcome, ret |-> r.ret,
                       sent |-> r.sent, slept |-> r.slept,
                       value |-> [f \in AddrFields |-> r.heap[r.ret][f]]]
    /\ pc' = "geocode"
    /\ UNCHANGED <<pts, coords, merged, final, idx, result, netcalls, runs,
                   firstResult, ct, seg, scan, net, segcall>>

\* mutant of analyze_gpx_address: `final` is not created anew (line 499),
\* the stops are appended to the list of the run before
analyze_gpx_address_NoInit ==
    /\ pc = "geocode"
    /\ Len(enriched) = Len(merged)
    /\ LET st == AddressPass([final |-> final, heap |-> heap], enriched)
       IN  /\ final' = st.final
           /\ heap' = st.heap
           /\ idx' = 1
           /\ IF Len(st.final) > 1
              THEN /\ pc' = "segments"
                   /\ UNCHANGED <<result, firstResult, segcall>>
              ELSE Return(st.final, st.heap)
    /\ UNCHANGED <<pts, coords, merged, enriched, GEOCACHE, rg, requests,
                   netcalls, runs, ct, seg, outbound, scan, answers, net,
                   segcall>>

\* lines 498-511, and `return final` when there is no segment
analyze_gpx_address ==
    /\ pc = "geocode"
    /\ Len(enriched) = Len(merged)
    /\ LET st == AddressPass([final |-> <<>>, heap |-> heap], enriched)
       IN  /\ final' = st.final
           /\ heap' = st.heap
           /\ idx' = 1
           /\ IF Len(st.final) > 1
              THEN /\ pc' = "segments"
                   /\ UNCHANGED <<result, firstResult, segcall>>
              ELSE Return(st.final, st.heap)
    /\ UNCHANGED <<pts, coords, merged, enriched, GEOCACHE, rg, requests,
                   netcalls, runs, ct, seg, outbound, scan, answers, net,
                   segcall>>

\* lines 514-540, one iteration of the loop, and `return final` after the
\* last one.  An exception of classify_transport ends analyze_gpx.
analyze_gpx_segment ==
    /\ pc = "segments"
    /\ idx <= Len(final) - 1
    /\ LET a == final[idx]
           end_prev == heap[a].end_dt
           start_next == heap[final[idx + 1]].start_dt
           dist_mm == SegDist(pts, 1, FALSE, 0, end_prev, start_next)
           dist_km == DistKm(dist_mm)
           speed_kmh == SpeedKmh(dist_km, start_next - end_prev)
           n == SegLen(pts, end_prev, start_next)
           hp1 == [heap EXCEPT ![a].next_dist_km_real = <<dist_km>>,
                               ![a].next_speed_kmh_real = <<speed_kmh>>]
       IN  \E lookups \in (IF net = <<>> \/ n = 0 THEN NetProfiles
                             ELSE {net[1]}) :
             LET c == classify_transport(n, speed_kmh, dist_km, lookups)
                 hp2 == [hp1 EXCEPT ![a].next_mode_rank = <<c.ret>>]
             IN  /\ net' = IF n = 0 THEN net ELSE <<lookups>>
                 /\ ct' = [n |-> n, speed_kmh |-> speed_kmh,
                           dist_km |-> dist_km, lookups |-> lookups,
                           exc |-> c.exc, spd |-> c.spd, cov |-> c.cov,
                           ret |-> c.ret]
                 /\ seg' = [idx |-> idx, end_prev |-> end_prev,
                            start_next |-> start_next,
                            secs |-> start_next - end_prev,
                            dist_mm |-> dist_mm, dist_km |-> dist_km,
                            speed |-> hp1[a].next_speed_kmh_real]
                 /\ netcalls' = netcalls + c.calls
                 /\ idx' = idx + 1
                 /\ IF c.exc # ""
                    THEN /\ heap' = hp1
                         /\ pc' = "raised"
                         /\ UNCHANGED <<result, firstResult, segcall>>
                    ELSE /\ heap' = hp2
                         /\ IF idx + 1 <= Len(final) - 1
                            THEN /\ pc' = "segments"
                                 /\ UNCHANGED <<result, firstResult, segcall>>
                            ELSE Return(final, hp2)
    /\ UNCHANGED <<pts, coords, merged, enriched, final, GEOCACHE, rg,
                   requests, runs, outbound, scan, answers, segcall>>

\* the same file is analysed a second time, by another call of analyze_gpx in the
\* same process (the cache is kept) or after importlib.reload(algorithm)
\* (src/benutzeroberflaeche.py:386, _GEOCACHE is a new empty dict)
analyze_gpx_again ==
    /\ pc \in {"returned", "raised"}
    /\ runs = 1
    /\ runs' = runs + 1
    /\ \E reload \in BOOLEAN :
         /\ GEOCACHE' = IF reload THEN <<>> ELSE GEOCACHE
         /\ heap' = IF reload THEN <<>> ELSE heap
         /\ outbound' = IF reload THEN <<>> ELSE outbound
         /\ Start(pts)
    /\ rg' = NoCall
    /\ ct' = NoClassify
    /\ seg' = NoSegment
    /\ UNCHANGED <<final, requests, netcalls, scan, answers, net, segcall>>

Next ==
    \/ analyze_gpx_missing
    \/ analyze_gpx_parse
    \/ analyze_gpx_detect
    \/ analyze_gpx_minute
    \/ analyze_gpx_geocode
    \/ analyze_gpx_address
    \/ analyze_gpx_segment
    \/ analyze_gpx_again

Spec == Init /\ [][Next]_vars

----------------------------------------------------------------------------
(* classify_transport called on its own *)

\* len(seg_pts)
SegLens == {0, 1, 3, 200}

\* speed_kmh in 0.01 km/h: 0, 5, 20, 45 and 300 km/h
Speeds == {0, 500, 2000, 4500, 30000}

\* dist_km in 0.01 km: 0.5 km, 2 km, 4 km, 5 km
Dists == {50, 200, 400, 500}

\* ways in the bounding box, none within SNAP_RADIUS_M, maxspeed 3
FarGdf == [empty |-> FALSE, near |-> "none", limit |-> 3]

\* ways that run along every second segment point only
OddGdf == [empty |-> FALSE, near |-> "odd", limit |-> 0]

\* any subset of the six lookups fails; the others return g
LookupSets ==
    { [m \in ModeSet |-> IF m \in failing THEN Raises ELSE Returns(g)]
        : failing \in SUBSET ModeSet,
          g \in {EmptyGdf, FullGdf(30), FarGdf, OddGdf} }

classify_transport_call ==
    /\ pc = "idle"
    /\ \E n \in SegLens, speed_kmh \in Speeds, dist_km \in Dists,
          lookups \in LookupSets :
         LET c == classify_transport(n, speed_kmh, dist_km, lookups)
         IN  /\ ct' = [n |-> n, speed_kmh |-> speed_kmh, dist_km |-> dist_km,
                       lookups |-> lookups, exc |-> c.exc, spd |-> c.spd,
                       cov |-> c.cov, ret |-> c.ret]
             /\ netcalls' = c.calls
    /\ pc' = "classified"
    /\ UNCHANGED <<seg, outbound, scan, pts, coords, merged, enriched, final,
                   idx, heap,
                   GEOCACHE, result, rg, requests, runs, firstResult,
                   answers, net, segcall>>

NextClassify == classify_transport_call

SpecClassify == Init /\ [][NextClassify]_vars

----------------------------------------------------------------------------
(* The minute pass of analyze_gpx (lines 476-482) on a given list *)

\* (start, end) of the stay-points, seconds after 10:00:00: within minute
\* 4, within minute 5 up to 10:05:59, the instant 10:05:00, and three that
\* end in a later minute than they start in
StayTimes ==
    { <<290, 299>>, <<300, 359>>, <<300, 300>>, <<359, 365>>, <<365, 420>>,
      <<420, 485>> }

\* the stay-point lists of length n; the k-th entry has latitude k
StayLists(n) ==
    { [k \in 1..n |-> [lat |-> k, lon |-> 0, s |-> f[k][1], e |-> f[k][2]]]
        : f \in [1..n -> StayTimes] }

minute_pass_call ==
    /\ pc = "idle"
    /\ \E n \in 1..MaxStays : \E cs \in StayLists(n) :
         /\ coords' = cs
         /\ merged' = MinutePass(<<>>, cs)
    /\ pc' = "merged"
    /\ UNCHANGED <<pts, enriched, final, idx, heap, GEOCACHE, result, rg,
                   requests, netcalls, runs, firstResult, ct, seg,
                   outbound, scan,
                   answers,
                   net, segcall>>

NextMinute == minute_pass_call

SpecMinute == Init /\ [][NextMinute]_vars

----------------------------------------------------------------------------
(* The detection loop of analyze_gpx (lines 455-474) step by step.  scan.i *)
(* and scan.j are the indices i and j of the code, counted from 0.        *)

\* the lists of points that reach line 455: sorted and not empty
Traces == { SortByTime(Timed(f)) : f \in Files(MaxPts) } \ { <<>> }

InitScan ==
    /\ pc = "detect"
    /\ pts \in Traces
    /\ coords = <<>>
    /\ merged = <<>>
    /\ enriched = <<>>
    /\ final = <<>>
    /\ idx = 0
    /\ heap = <<>>
    /\ GEOCACHE = <<>>
    /\ result = <<>>
    /\ rg = NoCall
    /\ requests = 0
    /\ netcalls = 0
    /\ runs = 1
    /\ firstResult = <<>>
    /\ ct = NoClassify
    /\ seg = NoSegment
    /\ outbound = <<>>
    /\ scan = [at |-> "outer", i |-> 0, j |-> 0, clusters |-> <<>>]
    /\ segcall = NoSegmentCall
    /\ answers = <<>>
    /\ net = <<>>

\* lines 457-458: `while i < n:` is entered, j = i + 1
scan_outer ==
    /\ scan.at = "outer"
    /\ scan.i < Len(pts)
    /\ scan' = [scan EXCEPT !.at = "inner", !.j = scan.i + 1]
    /\ UNCHANGED <<pc, pts, coords, merged, enriched, final, idx, heap,
                   GEOCACHE, result, rg, requests, netcalls, runs,
                   firstResult, ct, seg, outbound, answers, net, segcall>>

\* the condition of the inner while loop, line 459
InRadius ==
    /\ scan.j < Len(pts)
    /\ haversine(pts[scan.i + 1].lat, pts[scan.i + 1].lon,
                 pts[scan.j + 1].lat, pts[scan.j + 1].lon)
         <= DIST_THRESHOLD_M * 1000

\* lines 459-460: one iteration of the inner loop
scan_inner ==
    /\ scan.at = "inner"
    /\ InRadius
    /\ scan' = [scan EXCEPT !.j = scan.j + 1]
    /\ UNCHANGED <<pc, pts, coords, merged, enriched, final, idx, heap,
                   GEOCACHE, result, rg, requests, netcalls, runs,
                   firstResult, ct, seg, outbound, answers, net, segcall>>

\* mutant of scan_close: a window that is too short leaves i where it is
scan_close_NoAdvance ==
    /\ scan.at = "inner"
    /\ ~InRadius
    /\ LET duration == pts[scan.j].t - pts[scan.i + 1].t
       IN  IF duration >= MIN_STOP_DURATION_SEC
           THEN scan' = [scan EXCEPT
                           !.at = "outer",
                           !.clusters = Append(@, Cluster(pts, scan.i + 1,
                                                          scan.j + 1)),
                           !.i = scan.j]
           ELSE scan' = [scan EXCEPT !.at = "outer"]
    /\ UNCHANGED <<pc, pts, coords, merged, enriched, final, idx, heap,
                   GEOCACHE, result, rg, requests, netcalls, runs,
                   firstResult, ct, seg, outbound, answers, net, segcall>>

\* lines 461-468: the inner loop has ended; the window pts[i:j] becomes a
\* cluster and i = j, or i += 1
scan_close ==
    /\ scan.at = "inner"
    /\ ~InRadius
    /\ LET duration == pts[scan.j].t - pts[scan.i + 1].t
       IN  IF duration >= MIN_STOP_DURATION_SEC
           THEN scan' = [scan EXCEPT
                           !.at = "outer",
                           !.clusters = Append(@, Cluster(pts, scan.i + 1,
                                                          scan.j + 1)),
                           !.i = scan.j]
           ELSE scan' = [scan EXCEPT !.at = "outer", !.i = scan.i + 1]
    /\ UNCHANGED <<pc, pts, coords, merged, enriched, final, idx, heap,
                   GEOCACHE, result, rg, requests, netcalls, runs,
                   firstResult, ct, seg, outbound, answers, net, segcall>>

\* the outer loop ends (i >= n), lines 470-474 build coords
scan_exit ==
    /\ scan.at = "outer"
    /\ scan.i >= Len(pts)
    /\ scan' = [scan EXCEPT !.at = "done"]
    /\ coords' = <<[lat |-> pts[1].lat, lon |-> pts[1].lon,
                    s |-> pts[1].t, e |-> pts[1].t]>>
                 \o scan.clusters
                 \o <<[lat |-> pts[Len(pts)].lat, lon |-> pts[Len(pts)].lon,
                       s |-> pts[Len(pts)].t, e |-> pts[Len(pts)].t]>>
    /\ pc' = "minute"
    /\ UNCHANGED <<pts, merged, enriched, final, idx, heap, GEOCACHE, result,
                   rg, requests, netcalls, runs, firstResult, ct, seg,
                   outbound, answers, net, segcall>>

NextScan ==
    \/ scan_outer
    \/ scan_inner
    \/ scan_close
    \/ scan_exit

\* the loop is sequential code: a step that can be taken is taken
SpecScan == InitScan /\ [][NextScan]_vars /\ WF_vars(NextScan)

----------------------------------------------------------------------------
(* classify_segment, src/transport_mode.py:93-152.  speed_kmh is in km/h.
   The labels are written in ASCII: "Strassenbahn" and "Zu Fuss" stand for
   the source's strings with a sharp s. *)

MaxWays == 2      \* most way ids in a map-matching answer

\* what a way counts as in cat_meters: the value of its railway tag, else
\* of its highway tag; "" for a way without either tag or without an
\* element in the answer of fetch_way_tags
WayTags == {"tram", "rail", "footway", "cycleway", "path", "residential", ""}

\* map_match: it raises, or the answer names 0..MaxWays way ids
MatchOutcomes ==
    { [ok |-> FALSE, ways |-> 0] }
    \cup { [ok |-> TRUE, ways |-> k] : k \in 0..MaxWays }

\* fetch_way_tags for k ways: it raises, or it answers with the tags
TagOutcomes(k) ==
    { [ok |-> FALSE, tags |-> <<>>] }
    \cup { [ok |-> TRUE, tags |-> t] : t \in [1..k -> WayTags] }

\* the Overpass count request of _count_bus_stops: it raises, or the
\* answer has a number under elements[0].tags.total, or a string (how
\* Overpass writes its counts), or null
BusStopOutcomes ==
    { [kind |-> "raise", total |-> 0], [kind |-> "int", total |-> 0],
      [kind |-> "int", total |-> 3], [kind |-> "str", total |-> 4],
      [kind |-> "null", total |-> 0] }

\* speed_kmh
SegSpeeds == {5, 20, 25, 26, 40}

\* len(seg_points)
SegPointCounts == {0, 1, 2, 3}

\* number of ways of tags counted under one of keys
Share(tags, keys) == Cardinality({ k \in 1..Len(tags) : tags[k] \in keys })

\* _count_bus_stops, lines 70-88: the value it returns
count_bus_stops(bs) ==
    IF bs.kind = "raise" THEN [kind |-> "int", total |-> 0] ELSE bs

\* classify_segment(seg_points, dist_km, speed_kmh) with n = len(seg_points)
\* and the outcomes mm, wt, bs of the three requests it may send.  share
\* > x is written total-free: 100 * count > x * total.
classify_segment(n, speed_kmh, mm, wt, bs) ==
    IF n < 2 THEN [label |-> "Unbekannt", exc |-> "", calls |-> 0]
    ELSE LET fetched == mm.ok /\ mm.ways > 0
             tags == IF fetched /\ wt.ok THEN wt.tags ELSE <<>>
             sum == Share(tags, WayTags \ {""})
             total == IF sum = 0 THEN 1 ELSE sum
             tram == Share(tags, {"tram"})
             rail == Share(tags, {"rail", "subway", "light_rail"})
             foot == Share(tags, {"footway", "pedestrian", "path"})
             cycle == Share(tags, {"cycleway", "path"})
             c == 1 + (IF fetched THEN 1 ELSE 0)
         IN  IF 100 * tram > 80 * total
             THEN [label |-> "Strassenbahn", exc |-> "", calls |-> c]
             ELSE IF 100 * rail > 70 * total
             THEN [label |-> "Zug", exc |-> "", calls |-> c]
             ELSE IF 100 * foot > 60 * total /\ speed_kmh < 7
             THEN [label |-> "Zu Fuss", exc |-> "", calls |-> c]
             ELSE IF 100 * cycle > 50 * total /\ 10 <= speed_kmh
                     /\ speed_kmh <= 30
             THEN [label |-> "Fahrrad", exc |-> "", calls |-> c]
             ELSE IF speed_kmh > 25
             THEN LET bus_stops == count_bus_stops(bs)
                  IN  IF bus_stops.kind # "int"
                      THEN [label |-> "", exc |-> "TypeError",
                            calls |-> c + 1]
                      ELSE [label |-> IF bus_stops.total >= 3 THEN "Bus"
                                      ELSE "Auto",
                            exc |-> "", calls |-> c + 1]
             ELSE [label |-> "Unbekannt", exc |-> "", calls |-> c]

classify_segment_call ==
    /\ pc = "idle"
    /\ \E n \in SegPointCounts, speed_kmh \in SegSpeeds,
          mm \in MatchOutcomes, bs \in BusStopOutcomes :
         \E wt \in TagOutcomes(mm.ways) :
           LET r == classify_segment(n, speed_kmh, mm, wt, bs)
           IN  segcall' = [n |-> n, speed_kmh |-> speed_kmh, mm |-> mm,
                           wt |-> wt, bs |-> bs, label |-> r.label,
                           exc |-> r.exc, calls |-> r.calls]
    /\ pc' = "labelled"
    /\ UNCHANGED <<pts, coords, merged, enriched, final, idx, heap, GEOCACHE,
                   result, rg, requests, netcalls, runs, firstResult, ct,
                   seg, outbound, scan, answers, net>>

NextSegment == classify_segment_call

SpecSegment == Init /\ [][NextSegment]_vars

----------------------------------------------------------------------------
(* Properties *)

\* analyze_gpx has returned the stops of a non-empty trace
Returned == pc = "returned" /\ pts # <<>>

\* classify_transport has returned the scores of a non-empty segment
Scored == ct.n > 0 /\ ct.exc = ""

\* sum of the six score numerators of a returned map
ScoreSum(ret) == SeqSum([i \in 1..Len(Modes) |-> ret[Modes[i]].num])

\* C1: for every non-empty trace the first returned stop has the coordinates
\* of the first point of the trace and the last returned stop has the
\* coordinates of the last point.
C1_EndpointInvariant ==
    Returned =>
        /\ result[1].lat = pts[1].lat
        /\ result[1].lon = pts[1].lon
        /\ result[Len(result)].lat = pts[Len(pts)].lat
        /\ result[Len(result)].lon = pts[Len(pts)].lon

\* C2: in the returned stop list the start times are strictly increasing
\* and each stop ends no later than the next one starts.
C2_StopsOrdered ==
    Returned =>
        \A i \in 1..(Len(result) - 1) :
            /\ result[i].start_dt < result[i + 1].start_dt
            /\ result[i].end_dt <= result[i + 1].start_dt

\* the returned stops fed through the two merge passes again, every stop
\* being a value of its own with the fields it was returned with
Remerge(stops) ==
    LET sp == [i \in 1..Len(stops) |->
                 [lat |-> stops[i].lat, lon |-> stops[i].lon,
                  s |-> stops[i].start_dt, e |-> stops[i].end_dt, src |-> i]]
        m == MinutePass(<<>>, sp)
        hp == [k \in 1..Len(m) |->
                 [stops[m[k].src] EXCEPT !.lat = m[k].lat, !.lon = m[k].lon,
                                         !.start_dt = m[k].s,
                                         !.end_dt = m[k].e]]
        st == AddressPass([final |-> <<>>, heap |-> hp],
                          [k \in 1..Len(m) |-> k])
    IN  Snapshot(st.final, st.heap)

C4_Normalized ==
    Scored =>
        /\ \A m \in ModeSet : ct.ret[m].den > 0
        /\ \/ /\ ScoreSum(ct.ret) > 0
              /\ \A m \in ModeSet : ct.ret[m].den = ScoreSum(ct.ret)
           \/ \A m \in ModeSet : ct.ret[m].num = 0

\* C4 witness: scores that are not all equal and sum to 1
C4_Witness ==
    /\ Scored
    /\ ct.ret["Fahrrad"].num > 0
    /\ ct.ret["Zug"].num = 0
    /\ ct.ret["Auto"].num > ct.ret["Fahrrad"].num

\* C4, second case: every raw score is 0
C4_WitnessZero ==
    /\ Scored
    /\ ct.lookups["Auto"].ok
    /\ \A m \in ModeSet : ct.ret[m].num = 0

\* C5: whichever lookups fail, classify_transport returns a score map and
\* raises nothing.
C5_NoErrorPropagated ==
    ct.n > 0 => ct.exc = ""

\* C6 as claimed: the returned map has the six modes and "best" for every
\* input, the empty list of points included.
C6_AlwaysSevenKeys ==
    (ct.n >= 0 /\ ct.exc = "") => DOMAIN ct.ret = ModeSet \cup {"best"}

\* C6 amended: for a non-empty list of points the returned map has the six
\* modes and "best"; for the empty list it has the key "best" only.
C6_Keys ==
    /\ Scored => DOMAIN ct.ret = ModeSet \cup {"best"}
    /\ (ct.n = 0 /\ ct.exc = "") => DOMAIN ct.ret = {"best"}

\* C6 witness: a map returned for a non-empty list although a lookup failed
C6_Witness ==
    /\ Scored
    /\ ~ct.lookups["Zug"].ok
    /\ ct.ret["best"] \in ModeSet

\* C7: a segment longer than FOOT_MAX_KM scores exactly 0 for "Zu Fuss",
\* whatever its speed and its coverage.
C7_FootSuppressed ==
    (Scored /\ ct.dist_km > 100 * FOOT_MAX_KM) => ct.ret["Zu Fuss"].num = 0

\* C7 witness: 5 km at walking speed on footways, other modes score
C7_Witness ==
    /\ Scored
    /\ ct.dist_km = 500
    /\ ct.speed_kmh = 500
    /\ ct.lookups["Zu Fuss"].ok
    /\ ct.lookups["Zu Fuss"].gdf.near = "all"
    /\ ScoreSum(ct.ret) > 0

\* C8: for a trace without timed points, or a missing file, analyze_gpx
\* returns the empty list, raises nothing and calls no collaborator.
C8_EmptyTrace ==
    (runs >= 1 /\ pts = <<>>) =>
        /\ pc = "returned"
        /\ result = <<>>
        /\ requests = 0
        /\ netcalls = 0

\* C8 witness: the run on an empty trace has returned
C8_Witness ==
    /\ runs = 1
    /\ pts = <<>>
    /\ pc = "returned"

\* C9: the second run on the same points, with the same answers of the
\* collaborators, returns what the first run returned, whether it starts
\* from the cache the first run left or from an empty one.
C9_Deterministic ==
    (runs = 2 /\ pc = "returned") => result = firstResult

\* C9 witness: a second run that was served from the cache and returned
\* several stops
C9_Witness ==
    /\ runs = 2
    /\ pc = "returned"
    /\ rg.outcome = "hit"
    /\ Len(result) >= 2

\* C10: when the request fails, by an exception or by a status other than
\* 200, reverse_geocode returns the address with five empty strings.
C10_FailureGivesEmptyAddress ==
    rg.outcome \in {"status", "exception"} => rg.value = EmptyAddr

\* C10 witness: a failed request, after one that succeeded
C10_Witness ==
    /\ rg.outcome = "status"
    /\ rg.ret >= 2
    /\ heap[1].road # ""

\* position of a mode in the priority order of _TAG_FILTERS
ModeIndex(m) == CHOOSE j \in 1..Len(Modes) : Modes[j] = m

\* C11: in a returned score map "best" is a mode whose score is the greatest
\* of the six, and among modes with the greatest score it is the first in
\* the order on-foot, bicycle, car, bus, tram, train.
C11_BestIsFirstMax ==
    Scored =>
        /\ ct.ret["best"] \in ModeSet
        /\ \A m \in ModeSet :
              /\ ct.ret[m].num <= ct.ret[ct.ret["best"]].num
              /\ ModeIndex(m) < ModeIndex(ct.ret["best"])
                    => ct.ret[m].num < ct.ret[ct.ret["best"]].num

\* C11 witness: car and bus share the greatest score, car is picked
C11_Witness ==
    /\ Scored
    /\ ct.ret["best"] = "Auto"
    /\ ct.ret["Bus"].num = ct.ret["Auto"].num
    /\ ct.ret["Auto"].num > ct.ret["Zu Fuss"].num

\* C12: the speed stored for a segment is distance_km / elapsed_hours when
\* the elapsed time from the earlier stop's end to the later stop's start is
\* greater than 0, and is left absent when the elapsed time is not greater
\* than 0.
C12_SpeedAbsentWhenNoTime ==
    seg.idx > 0 =>
        IF seg.secs > 0
        THEN seg.speed = <<RoundDiv(seg.dist_km * 3600, seg.secs)>>
        ELSE seg.speed = <<>>

\* the zero-duration stay-point at the point q
PointStay(q) == [lat |-> q.lat, lon |-> q.lon, s |-> q.t, e |-> q.t]

\* C13: the stay-point list of a non-empty trace starts with a
\* zero-duration stay-point at the first point and ends with one at the
\* last point; when the whole trace spans less than the minimum stop
\* duration the list has these two entries and no cluster between them.
C13_SyntheticEndpoints ==
    coords # <<>> =>
        /\ Len(coords) >= 2
        /\ coords[1] = PointStay(pts[1])
        /\ coords[Len(coords)] = PointStay(pts[Len(pts)])
        /\ pts[Len(pts)].t - pts[1].t < MIN_STOP_DURATION_SEC
              => Len(coords) = 2

\* C13 witness: a trace of several points in one place, shorter than the
\* minimum stop duration, after the detector has run
C13_Witness ==
    /\ pc = "minute"
    /\ Len(pts) >= 3
    /\ pts[Len(pts)].t - pts[1].t < MIN_STOP_DURATION_SEC
    /\ pts[1].lat = pts[Len(pts)].lat
    /\ Len(coords) = 2

\* C13, other case: a cluster lies between the two synthetic stay-points
C13_WitnessCluster ==
    /\ pc = "minute"
    /\ Len(coords) = 3
    /\ coords[2].e - coords[2].s >= MIN_STOP_DURATION_SEC
    /\ coords[3].s > coords[2].e

\* the k-th stay-point is folded: the entry before it ends, and it starts,
\* in the same calendar minute (the previous entry's current end is the end
\* of the stay-point before, folded or not)
Folded(cs, k) == k > 1 /\ Minute(cs[k - 1].e) = Minute(cs[k].s)

\* the last stay-point folded into the entry that the k-th one starts
RECURSIVE GroupEnd(_, _)
GroupEnd(cs, k) ==
    IF k < Len(cs) /\ Folded(cs, k + 1) THEN GroupEnd(cs, k + 1) ELSE k

\* C14: minute pass: a stay-point is folded into the previous entry, whose
\* end becomes the stay-point's end, exactly when the previous entry's
\* current end and the stay-point's start lie in the same calendar minute;
\* every other stay-point starts a new entry.
C14_MinutePass ==
    merged # <<>> =>
        LET starts == { k \in 1..Len(coords) : ~Folded(coords, k) }
        IN  /\ Len(merged) = Cardinality(starts)
            /\ \A k \in starts :
                  merged[Cardinality({ j \in starts : j <= k })]
                    = [coords[k] EXCEPT !.e = coords[GroupEnd(coords, k)].e]

\* C14 witness: an entry ending at 10:05:59 followed by one starting at
\* 10:05:00 gives one entry with the end of the second
C14_Witness ==
    /\ pc = "merged"
    /\ Len(coords) = 2
    /\ coords[1].e = 359
    /\ coords[2].s = 300
    /\ coords[2].e = 300
    /\ merged = <<[coords[1] EXCEPT !.e = 300]>>

\* the fold condition of the address pass on the dicts prev and item
FoldRule(prev, item) ==
    /\ item.start_dt - prev.end_dt <= MAX_GAP_SEC_SAME_ADDR
    /\ \/ \A f \in AddrFields : prev[f] = item[f]
       \/ haversine(prev.lat, prev.lon, item.lat, item.lon)
            <= MERGE_DIST_M * 1000

\* C15: address pass: walking the enriched list from left to right, an
\* entry is folded into the last stop (that stop's end becomes the entry's
\* end, no stop is added) exactly when the gap from the last stop's end to
\* the entry's start is at most 600 s and the two have equal address fields
\* or lie at most 150 m apart; otherwise the entry is appended as a new
\* stop.  Nothing else changes, and a folded entry is not looked at again.
C15_AddressPass ==
    [][(pc = "geocode" /\ pc' # "geocode") =>
        LET st(k) == AddressPass([final |-> <<>>, heap |-> heap],
                                 SubSeq(enriched, 1, k))
            n == Len(enriched)
        IN  /\ final' = st(n).final
            /\ heap' = st(n).heap
            /\ st(1) = [final |-> <<enriched[1]>>, heap |-> heap]
            /\ \A k \in 2..n :
                  LET before == st(k - 1)
                      item == enriched[k]
                      prev == before.final[Len(before.final)]
                  IN  IF FoldRule(before.heap[prev], before.heap[item])
                      THEN st(k) =
                             [final |-> before.final,
                              heap |-> [before.heap EXCEPT ![prev].end_dt =
                                          before.heap[item].end_dt]]
                      ELSE st(k) =
                             [final |-> Append(before.final, item),
                              heap |-> before.heap]
      ]_vars

\* C15 witness: the address pass has folded an entry and has kept another
\* as a new stop
C15_Witness ==
    /\ pc = "segments"
    /\ idx = 1
    /\ Len(final) >= 2
    /\ Len(final) < Len(enriched)
    /\ \E k \in 1..Len(final) : heap[final[k]].end_dt > heap[final[k]].start_dt

\* the points p[i], ..., p[j-1] are a maximal run around the anchor p[i]:
\* all within radius_m of p[i], and p[j] (if there is one) is not
MaximalRun(p, i, j) ==
    /\ \A k \in i..(j - 1) :
          haversine(p[i].lat, p[i].lon, p[k].lat, p[k].lon)
            <= DIST_THRESHOLD_M * 1000
    /\ j <= Len(p) =>
          haversine(p[i].lat, p[i].lon, p[j].lat, p[j].lon)
            > DIST_THRESHOLD_M * 1000

\* C16: every interior stay-point of the detector's list is a maximal run of
\* consecutive points within the radius of the run's first point, starts and
\* ends with the run, lies at the mean of its points and spans at least the
\* minimum stop duration.
C16_ClusterRule ==
    \A c \in 2..(Len(coords) - 1) :
        \E i \in 1..Len(pts) : \E j \in (i + 1)..(Len(pts) + 1) :
            /\ MaximalRun(pts, i, j)
            /\ coords[c].s = pts[i].t
            /\ coords[c].e = pts[j - 1].t
            /\ coords[c].e - coords[c].s >= MIN_STOP_DURATION_SEC
            /\ coords[c].lat * (j - i) <=
                  SeqSum([k \in 1..(j - i) |-> pts[i + k - 1].lat])
            /\ SeqSum([k \in 1..(j - i) |-> pts[i + k - 1].lat])
                  < (coords[c].lat + 1) * (j - i)

\* C16 witness: the cluster of the second and third of four points; the
\* first point is too far to anchor it and the fourth closes the run
C16_Witness ==
    /\ pc = "minute"
    /\ Len(pts) = 4
    /\ Len(coords) = 3
    /\ coords[2].s = pts[2].t
    /\ coords[2].e = pts[3].t
    /\ pts[2].lat # pts[3].lat

\* the raw points in the window of the stay-point c (the points of a trace
\* have increasing times)
Window(c) == { k \in 1..Len(pts) : c.s <= pts[k].t /\ pts[k].t <= c.e }

\* C17: the interior stay-points of the detector's list do not overlap: no
\* raw point lies in the windows of two of them, and each ends no later
\* than the next one starts.
C17_NoOverlap ==
    \A c \in 2..(Len(coords) - 1) : \A d \in 2..(Len(coords) - 1) :
        c < d =>
            /\ Window(coords[c]) \cap Window(coords[d]) = {}
            /\ coords[c].e <= coords[d].s

\* C17 witness: two clusters, each of two points
C17_Witness ==
    /\ pc = "minute"
    /\ Len(coords) = 4
    /\ Cardinality(Window(coords[2])) = 2
    /\ Cardinality(Window(coords[3])) = 2

\* C18: a stop that has been created and enriched keeps the coordinates
\* and the start time it was created with (those of its entry of the merged
\* list) through every later step of the run, the geocoding of later stops
\* included.
C18_StopNotOverwritten ==
    \A k \in 1..Len(enriched) :
        /\ heap[enriched[k]].lat = merged[k].lat
        /\ heap[enriched[k]].lon = merged[k].lon
        /\ heap[enriched[k]].start_dt = merged[k].s

\* number of the n segment points that have a geometry returned by the
\* lookup lk within the snap radius
NearPoints(lk, n) ==
    IF ~lk.ok \/ lk.gdf.empty THEN 0
    ELSE Cardinality({ k \in 0..(n - 1) : InRange(lk.gdf, k) })

\* C19: for every mode the coverage score is the fraction of the segment's
\* points that have a matched geometry within the snap radius: 1 when all
\* have one, whatever the length of the segment, and 0 when no geometry is
\* returned or none is in range.
C19_CoverageIsFraction ==
    Scored =>
        \A i \in 1..Len(Modes) :
            ct.cov[i] = NearPoints(ct.lookups[Modes[i]], ct.n)

\* C20: for every mode with band [lo, hi] and every speed v the speed score
\* is 1 when lo <= v <= hi, lies in [0, 1] within the margin outside the
\* band, and is 0 when v is more than the margin (1 km/h) below lo or above
\* hi.
C20_SpeedBand ==
    Scored =>
        \A i \in 1..Len(Modes) :
            LET lo == 100 * SPEED_BANDS[Modes[i]][1]
                hi == 100 * SPEED_BANDS[Modes[i]][2]
                v == ct.speed_kmh
            IN  /\ ct.spd[i] \in 0..SpeedDen
                /\ (lo <= v /\ v <= hi) => ct.spd[i] = SpeedDen
                /\ (v < lo - 100 \/ v > hi + 100) => ct.spd[i] = 0

\* the on-foot raw score of the last call before any damping by distance,
\* 0.4 * s_speed + 0.6 * s_cov, over the denominator of the returned scores
FootBase ==
    LET g == CovGcd(1, ct.lookups, ct.n)
    IN  4 * ct.spd[1] * (ct.n \div g) + 6 * (ct.cov[1] \div g) * SpeedDen

\* C21: the on-foot raw score is the undamped score times a factor that is
\* 1 up to 1 km, falls linearly to 0 at 4 km and is 0 beyond; between 1 km
\* and 4 km it is strictly smaller than at 1 km when that one is not 0.
C21_FootDecay ==
    Scored =>
        LET foot == ct.ret["Zu Fuss"].num
            d == ct.dist_km
        IN  /\ d <= 100 => foot = FootBase
            /\ (100 < d /\ d < 400) =>
                  /\ 3 * foot = (FootBase \div 100) * (400 - d)
                  /\ FootBase > 0 => foot < FootBase
            /\ d >= 400 => foot = 0

\* index of the first point of the trace with a time >= t, Len(pts) + 1 if
\* there is none
FirstAtOrAfter(t) ==
    IF \E k \in 1..Len(pts) : pts[k].t >= t
    THEN CHOOSE k \in 1..Len(pts) :
            /\ pts[k].t >= t
            /\ \A j \in 1..(k - 1) : pts[j].t < t
    ELSE Len(pts) + 1

\* distance from the point k to the point k + 1 of the trace, in mm
Leg(k) == haversine(pts[k].lat, pts[k].lon, pts[k + 1].lat, pts[k + 1].lon)

C23_OneRequestPerKey ==
    /\ \A i \in 1..Len(outbound) : \A j \in 1..Len(outbound) :
          i # j => outbound[i] # outbound[j]
    /\ rg.outcome = "hit" =>
          /\ rg.sent = 0
          /\ rg.slept = 0
          /\ rg.ret = GEOCACHE[Key(heap[rg.ret].lat, heap[rg.ret].lon)]

\* C23 witness: a call served from the cache entry of a failed lookup
C23_Witness ==
    /\ runs = 1
    /\ rg.outcome = "hit"
    /\ rg.value = EmptyAddr
    /\ Len(outbound) = 2
    /\ requests = 2

\* C24: whenever analyze_gpx measures a segment, the time from the end of
\* the earlier stop to the start of the later stop is greater than 0, so
\* the branch of the speed computation for elapsed time <= 0 is not taken.
C24_ElapsedPositive ==
    seg.idx > 0 => seg.secs > 0

\* C25: the detection scan terminates: the inner index j never exceeds the
\* number of points, every pass of the outer loop leaves i greater than it
\* was (j > i after a cluster, i + 1 otherwise), and the loop is left.
C25_ScanTerminates ==
    /\ [](scan.j <= Len(pts))
    /\ [][/\ scan'.i >= scan.i
           /\ (scan.at = "inner" /\ scan'.at = "outer") => scan'.i > scan.i
         ]_vars
    /\ <>(scan.at = "done")

\* C25 witness: the scan of four points has ended after a window that was
\* kept and windows that were dropped, with the list the detector builds
C25_Witness ==
    /\ scan.at = "done"
    /\ Len(pts) = 4
    /\ Len(scan.clusters) = 1
    /\ scan.clusters[1].s > pts[1].t
    /\ coords = Coords(pts)

\* the scan step by step builds the list that Coords computes
C25_ScanIsCoords ==
    scan.at = "done" => coords = Coords(pts)

\* the last classify_segment call got no way tags: map matching failed or
\* named no ways, or the way-tag lookup failed or gave no tagged way
NoWayTags ==
    \/ ~segcall.mm.ok
    \/ segcall.mm.ways = 0
    \/ ~segcall.wt.ok
    \/ \A k \in 1..Len(segcall.wt.tags) : segcall.wt.tags[k] = ""

\* C26: classify_segment returns a label whatever the collaborators do;
\* without way tags the label is "Unbekannt" up to 25 km/h and "Auto" or
\* "Bus" above; with fewer than 2 points it is "Unbekannt" and nothing is
\* requested.
C26_SegmentLabelled ==
    segcall.n >= 0 =>
        /\ segcall.exc = ""
        /\ segcall.n < 2 =>
              segcall.label = "Unbekannt" /\ segcall.calls = 0
        /\ (segcall.n >= 2 /\ NoWayTags) =>
              IF segcall.speed_kmh <= 25
              THEN segcall.label = "Unbekannt"
              ELSE segcall.label \in {"Auto", "Bus"}

====
